---- MODULE Spec2Model ----
(***************************************************************************)
(* The SMS messaging backend of src/main.py: POST /api/messages            *)
(* (create_message), the Twilio gateway (send_sms_via_twilio), the         *)
(* document store it writes to, and GET /api/messages (list_messages).     *)
(***************************************************************************)
EXTENDS Integers, Sequences, FiniteSets, TLC

(***************************************************************************)
(* Python values.  Every value carries its type in the field t, so that a  *)
(* str never equals None, an ObjectId or a datetime.  A str whose single   *)
(* characters matter (a phone number, a message body) is given character   *)
(* by character (Chars); a dict is a function from its keys to values.     *)
(***************************************************************************)
None == [t |-> "none"]

Str(s) == [t |-> "str", v |-> s]

Chars(cs) == [t |-> "chars", v |-> cs]

ObjectId(hex) == [t |-> "oid", v |-> hex]

Datetime(n) == [t |-> "datetime", v |-> n]

\* str(x) of an ObjectId: its hexadecimal text, as a str
PyStr(x) == IF x.t = "oid" THEN Str(x.v) ELSE x

\* datetime.isoformat()
isoformat(d) == Str("2026-01-01T00:00:" \o ToString(d.v) \o "+00:00")

\* Python truthiness of None and of a str
Truthy(x) == x # None /\ x # Str("") /\ x # Chars(<<>>)

EmptyDict == [k \in {} |-> None]

\* dict.get(key, default)
Get(d, key, default) == IF key \in DOMAIN d THEN d[key] ELSE default

\* dict.update(other)
Update(d, other) == [k \in DOMAIN d \cup DOMAIN other |-> IF k \in DOMAIN other THEN other[k] ELSE d[k]]

(***************************************************************************)
(* Characters.  str.isdigit() is true of the ASCII digits, of the decimal  *)
(* digits of other scripts (ARABIC-INDIC DIGIT THREE) and of characters    *)
(* whose Numeric_Type is Digit (SUPERSCRIPT TWO).                          *)
(***************************************************************************)
AsciiDigits == {"0", "1", "2", "3", "4", "5", "6", "7", "8", "9"}

DecimalDigits == AsciiDigits \cup {"ARABIC-INDIC DIGIT THREE"}

IsDigitChars == DecimalDigits \cup {"SUPERSCRIPT TWO"}

\* s.startswith(prefix), prefix one character
startswith(s, c) == Len(s) >= 1 /\ s[1] = c

\* s.isdigit(): at least one character, and all of them digits
isdigit(s) == Len(s) >= 1 /\ \A i \in 1..Len(s) : s[i] \in IsDigitChars

\* s[1:]
Tail1(s) == SubSeq(s, 2, Len(s))

PhoneMinLen == 8

PhoneMaxLen == 18

BodyMinLen == 1

BodyMaxLen == 1600

DefaultLimit == 25

\* MessageCreate: the request model the framework binds before create_message runs
MessageCreateValid(p) == Len(p.body) >= BodyMinLen /\ Len(p.body) <= BodyMaxLen

\* the phone check of create_message: TRUE when the request is rejected with 400
PhoneRejected(to) ==
    \/ ~startswith(to, "+")
    \/ ~isdigit(Tail1(to))
    \/ Len(to) < PhoneMinLen
    \/ Len(to) > PhoneMaxLen

(***************************************************************************)
(* The provider gateway, send_sms_via_twilio.                              *)
(***************************************************************************)
CredentialNames == {"TWILIO_ACCOUNT_SID", "TWILIO_AUTH_TOKEN", "TWILIO_FROM"}

\* a variant: configured as soon as one of the three settings is present
CredentialsConfiguredAny(c) == \E k \in CredentialNames : Truthy(c[k])

\* TWILIO_ACCOUNT_SID and TWILIO_AUTH_TOKEN and TWILIO_FROM
CredentialsConfigured(c) == \A k \in CredentialNames : Truthy(c[k])

\* no provider call was made
NoOutcome == [kind |-> "none"]

\* requests.post raised (timeout, connection error)
Raised(text) == [kind |-> "exception", text |-> text]

\* requests.post returned a response
Response(code, body) == [kind |-> "response", code |-> code, body |-> body]

\* a response body that resp.json() cannot parse
TextBody(text) == [json |-> FALSE, text |-> text]

\* a response body that resp.json() parses to value
JsonBody(value) == [json |-> TRUE, value |-> value]

\* a JSON object
JsonObject(fields) == [t |-> "dict", fields |-> fields]

\* a JSON array
JsonArray == [t |-> "list"]

\* payload = resp.json(), or {"raw": resp.text} when that raises
ParsePayload(body) ==
    IF body.json THEN body.value ELSE JsonObject([k \in {"raw"} |-> Str(body.text)])

\* a variant: the simulated result names no provider
SimulatedResultNoProvider ==
    [provider |-> None, status |-> Str("queued"), sid |-> None,
     error |-> Str("Twilio credentials not configured. Message queued (simulation).")]

\* the result when a credential is missing
SimulatedResult ==
    [provider |-> Str("twilio"), status |-> Str("queued"), sid |-> None,
     error |-> Str("Twilio credentials not configured. Message queued (simulation).")]

\* the result of a response with a status code in 200..299
SuccessResult(payload) ==
    [provider |-> Str("twilio"),
     status |-> Get(payload.fields, "status", Str("sent")),
     sid |-> Get(payload.fields, "sid", None),
     error |-> None]

\* the result of a response with any other status code
FailureResult(payload, code) ==
    [provider |-> Str("twilio"),
     status |-> Str("failed"),
     sid |-> Get(payload.fields, "sid", None),
     error |-> IF Truthy(Get(payload.fields, "message", None))
               THEN Get(payload.fields, "message", None)
               ELSE Str("HTTP " \o ToString(code))]

\* a variant: the result of a raised call carries a sid
ExceptionResultWithSid(text) ==
    [provider |-> Str("twilio"), status |-> Str("failed"), sid |-> Str("unknown"), error |-> Str(text)]

\* the result when the call, or the handling of its response, raised
ExceptionResult(text) ==
    [provider |-> Str("twilio"), status |-> Str("failed"), sid |-> None, error |-> Str(text)]

\* send_sms_via_twilio, given what requests.post does (outcome)
send_sms_via_twilio(c, to, body, outcome) ==
    IF ~CredentialsConfigured(c) THEN SimulatedResult
    ELSE IF outcome.kind = "exception" THEN ExceptionResult(outcome.text)
    ELSE LET payload == ParsePayload(outcome.body) IN
         \* payload.get on a value that is no dict raises AttributeError,
         \* which the outer except catches
         IF payload.t # "dict"
         THEN ExceptionResult("'" \o payload.t \o "' object has no attribute 'get'")
         ELSE IF 200 <= outcome.code /\ outcome.code < 300
              THEN SuccessResult(payload)
              ELSE FailureResult(payload, outcome.code)

(***************************************************************************)
(* serialize_doc                                                           *)
(***************************************************************************)
\* d["id"] = str(d.pop("_id"))
RenameId(doc) ==
    IF "_id" \in DOMAIN doc
    THEN [k \in (DOMAIN doc \ {"_id"}) \cup {"id"} |->
            IF k = "id" THEN PyStr(doc["_id"]) ELSE doc[k]]
    ELSE doc

\* a variant: _id is renamed to id without str()
serialize_doc_raw_id(doc) ==
    LET d == IF "_id" \in DOMAIN doc
             THEN [k \in (DOMAIN doc \ {"_id"}) \cup {"id"} |->
                     IF k = "id" THEN doc["_id"] ELSE doc[k]]
             ELSE doc
    IN [k \in DOMAIN d |-> IF d[k].t = "datetime" THEN isoformat(d[k]) ELSE d[k]]

\* serialize_doc: _id renamed, every datetime as its ISO-8601 text
serialize_doc(doc) ==
    LET d == RenameId(doc)
    IN [k \in DOMAIN d |-> IF d[k].t = "datetime" THEN isoformat(d[k]) ELSE d[k]]

(***************************************************************************)
(* The message record and the document store.                              *)
(***************************************************************************)
\* MessageSchema(...).model_dump(): the six fields of a message
MessageSchema(to, body, result) ==
    [k \in {"to", "body", "status", "provider", "sid", "error"} |->
        CASE k = "to" -> to
          [] k = "body" -> body
          [] k = "status" -> Get(result, "status", Str("queued"))
          [] k = "provider" -> Get(result, "provider", None)
          [] k = "sid" -> Get(result, "sid", None)
          [] k = "error" -> Get(result, "error", None)]

\* the identifier the store gives its n-th document
NewObjectId(n) == ObjectId("65f0c0ffee" \o ToString(n))

\* create_document(collection, data): the document as stored
StoredDocument(data, oid) == Update(data, [k \in {"_id"} |-> oid])

\* get_documents(collection, {}, limit): at most limit documents
get_documents(docs, limit) ==
    SubSeq(docs, 1, IF limit < Len(docs) THEN limit ELSE Len(docs))

\* a variant: a failed delivery is answered with 502
create_message_response_502(message_doc, inserted_id, now) ==
    [code |-> IF message_doc["status"] = Str("failed") THEN 502 ELSE 200,
     body |-> Update(message_doc,
                     [k \in {"id", "created_at"} |->
                        IF k = "id" THEN inserted_id ELSE isoformat(now)])]

\* the response of create_message: the record, its id and created_at
create_message_response(message_doc, inserted_id, now) ==
    [code |-> 200,
     body |-> Update(message_doc,
                     [k \in {"id", "created_at"} |->
                        IF k = "id" THEN inserted_id ELSE isoformat(now)])]

\* list_messages: the documents the store returns, serialized
list_messages(docs, limit) ==
    LET found == get_documents(docs, limit)
    IN [i \in 1..Len(found) |-> serialize_doc(found[i])]

(***************************************************************************)
(* Bounds and inputs.                                                      *)
(***************************************************************************)
MaxReqs == 2

MaxLimit == 1

Requests == 1..MaxReqs

Limits == (1..MaxLimit) \cup {DefaultLimit}

Digits(n) == [i \in 1..n |-> "1"]

\* "+" and digits, n characters in all
Plus(n) == <<"+">> \o Digits(n - 1)

WithLast(s, c) == [s EXCEPT ![Len(s)] = c]

Body(n) == [i \in 1..n |-> "x"]

CredentialValues == {None, Str(""), Str("AC0123")}

AllCredentials == [CredentialNames -> CredentialValues]

SomeCredentials ==
    {[k \in CredentialNames |-> Str("AC0123")],
     [k \in CredentialNames |-> IF k = "TWILIO_FROM" THEN None ELSE Str("AC0123")]}

OddCharacters == {"a", "+", " ", "SUPERSCRIPT TWO", "ARABIC-INDIC DIGIT THREE"}

AllPhones ==
    {Digits(n) : n \in 0..(PhoneMaxLen + 1)}
    \cup {Plus(n) : n \in 1..(PhoneMaxLen + 1)}
    \cup {WithLast(Plus(n), c) : n \in {PhoneMinLen - 1, PhoneMinLen, PhoneMinLen + 1, PhoneMaxLen, PhoneMaxLen + 1}, c \in OddCharacters}

SomePhones ==
    {Plus(PhoneMinLen - 1), Plus(PhoneMinLen), Plus(PhoneMaxLen + 1),
     Digits(PhoneMinLen), WithLast(Plus(PhoneMinLen + 1), "a"),
     WithLast(Plus(PhoneMinLen + 1), "SUPERSCRIPT TWO")}

AllPayloads ==
    [to : AllPhones, body : {Body(BodyMinLen - 1), Body(BodyMinLen), Body(BodyMaxLen), Body(BodyMaxLen + 1)}]

SomePayloads ==
    [to : SomePhones, body : {Body(BodyMinLen)}]
    \cup [to : {Plus(PhoneMinLen)}, body : {Body(BodyMinLen - 1)}]

JsonFieldValues(name) ==
    CASE name = "sid" -> {None, Str("SM123")}
      [] name = "status" -> {None, Str("accepted")}
      [] name = "message" -> {Str(""), Str("bad request")}

JsonFieldNames == {"sid", "status", "message"}

\* every object over subsets of the three fields the gateway reads
AllJsonObjects ==
    UNION {{JsonObject(f) : f \in {g \in [names -> UNION {JsonFieldValues(n) : n \in names}] :
                                      \A n \in names : g[n] \in JsonFieldValues(n)}}
           : names \in SUBSET JsonFieldNames}

AllBodies == {TextBody("<html>Bad Gateway</html>"), JsonBody(JsonArray)} \cup {JsonBody(o) : o \in AllJsonObjects}

AllOutcomes ==
    {Raised("Read timed out"), Raised("Connection refused")}
    \cup {Response(code, b) : code \in {199, 200, 201, 299, 300, 400, 500}, b \in AllBodies}

SomeOutcomes ==
    {Raised("Read timed out"),
     Response(200, TextBody("<html>Bad Gateway</html>")),
     Response(200, JsonBody(JsonArray)),
     Response(201, JsonBody(JsonObject([k \in {"sid", "status"} |-> IF k = "sid" THEN Str("SM123") ELSE Str("accepted")]))),
     Response(400, JsonBody(JsonObject([k \in {"message"} |-> Str("bad request")]))),
     Response(500, JsonBody(JsonObject([k \in {"sid"} |-> Str("SM123")])))}

(***************************************************************************)
(* State.                                                                  *)
(***************************************************************************)
VARIABLES
    creds,            \* the three TWILIO_* settings, read once at start
    pc,               \* each request's position in create_message
    req,              \* each request's payload
    netCalls,         \* the requests.post calls made for each request
    http,             \* what requests.post did for each request
    provider_result,  \* create_message's provider_result
    resp,             \* each request's response
    store,            \* the "message" collection, in insertion order
    docOf,            \* the place in store of each request's document, 0 if none
    clock,            \* datetime.now
    lastList          \* the response of the latest GET /api/messages

vars == <<creds, pc, req, netCalls, http, provider_result, resp, store, docOf, clock, lastList>>

NoPayload == [to |-> <<>>, body |-> <<>>]

NoResponse == [code |-> 0, body |-> EmptyDict]

InitWith(credentials) ==
    /\ creds \in credentials
    /\ pc = [r \in Requests |-> "idle"]
    /\ req = [r \in Requests |-> NoPayload]
    /\ netCalls = [r \in Requests |-> 0]
    /\ http = [r \in Requests |-> NoOutcome]
    /\ provider_result = [r \in Requests |-> EmptyDict]
    /\ resp = [r \in Requests |-> NoResponse]
    /\ store = <<>>
    /\ docOf = [r \in Requests |-> 0]
    /\ clock = 0
    /\ lastList = [code |-> 0, body |-> <<>>]

Init == InitWith(SomeCredentials)

InitWide == InitWith(AllCredentials)

(***************************************************************************)
(* POST /api/messages.  A request is handled in three steps, one for each  *)
(* place where the handler can block: up to requests.post being issued,    *)
(* the return of requests.post, and create_document with the response.     *)
(***************************************************************************)
\* a POST /api/messages request arrives; requests are numbered as they arrive
Receive(r, p) ==
    /\ pc[r] = "idle"
    /\ \A q \in 1..(r - 1) : pc[q] # "idle"
    /\ req' = [req EXCEPT ![r] = p]
    /\ pc' = [pc EXCEPT ![r] = "recv"]
    /\ UNCHANGED <<creds, netCalls, http, provider_result, resp, store, docOf, clock, lastList>>

\* a variant: the record is inserted before the provider is called
CreateMessageStartPersistFirst(r) ==
    /\ pc[r] = "recv"
    /\ IF ~MessageCreateValid(req[r])
       THEN /\ resp' = [resp EXCEPT ![r] = [code |-> 422, body |-> [k \in {"detail"} |-> Str("validation error")]]]
            /\ pc' = [pc EXCEPT ![r] = "done"]
            /\ UNCHANGED <<netCalls, provider_result, store, docOf>>
       ELSE IF PhoneRejected(req[r].to)
       THEN /\ resp' = [resp EXCEPT ![r] = [code |-> 400, body |-> [k \in {"detail"} |-> Str("Invalid phone number format. Use E.164 like +15551234567")]]]
            /\ pc' = [pc EXCEPT ![r] = "done"]
            /\ UNCHANGED <<netCalls, provider_result, store, docOf>>
       ELSE /\ store' = Append(store, StoredDocument(MessageSchema(Chars(req[r].to), Chars(req[r].body), EmptyDict), NewObjectId(Len(store) + 1)))
            /\ docOf' = [docOf EXCEPT ![r] = Len(store) + 1]
            /\ IF ~CredentialsConfigured(creds)
               THEN /\ provider_result' = [provider_result EXCEPT ![r] = send_sms_via_twilio(creds, Chars(req[r].to), Chars(req[r].body), NoOutcome)]
                    /\ pc' = [pc EXCEPT ![r] = "persist"]
                    /\ UNCHANGED netCalls
               ELSE /\ netCalls' = [netCalls EXCEPT ![r] = @ + 1]
                    /\ pc' = [pc EXCEPT ![r] = "await"]
                    /\ UNCHANGED provider_result
            /\ UNCHANGED resp
    /\ UNCHANGED <<creds, req, http, clock, lastList>>

\* create_message from the binding of the payload up to requests.post being
\* issued (or, with a credential missing, up to the return of the gateway)
CreateMessageStart(r) ==
    /\ pc[r] = "recv"
    /\ IF ~MessageCreateValid(req[r])
       THEN /\ resp' = [resp EXCEPT ![r] = [code |-> 422, body |-> [k \in {"detail"} |-> Str("validation error")]]]
            /\ pc' = [pc EXCEPT ![r] = "done"]
            /\ UNCHANGED <<netCalls, provider_result>>
       ELSE IF PhoneRejected(req[r].to)
       THEN /\ resp' = [resp EXCEPT ![r] = [code |-> 400, body |-> [k \in {"detail"} |-> Str("Invalid phone number format. Use E.164 like +15551234567")]]]
            /\ pc' = [pc EXCEPT ![r] = "done"]
            /\ UNCHANGED <<netCalls, provider_result>>
       ELSE IF ~CredentialsConfigured(creds)
       THEN /\ provider_result' = [provider_result EXCEPT ![r] = send_sms_via_twilio(creds, Chars(req[r].to), Chars(req[r].body), NoOutcome)]
            /\ pc' = [pc EXCEPT ![r] = "persist"]
            /\ UNCHANGED <<netCalls, resp>>
       ELSE /\ netCalls' = [netCalls EXCEPT ![r] = @ + 1]
            /\ pc' = [pc EXCEPT ![r] = "await"]
            /\ UNCHANGED <<provider_result, resp>>
    /\ UNCHANGED <<creds, req, http, store, docOf, clock, lastList>>

\* a variant: a failed attempt is retried once
TwilioReturnRetry(r, outcome) ==
    /\ pc[r] = "await"
    /\ http' = [http EXCEPT ![r] = outcome]
    /\ provider_result' = [provider_result EXCEPT ![r] = send_sms_via_twilio(creds, Chars(req[r].to), Chars(req[r].body), outcome)]
    /\ IF provider_result'[r].status = Str("failed") /\ netCalls[r] < 2
       THEN /\ netCalls' = [netCalls EXCEPT ![r] = @ + 1]
            /\ UNCHANGED pc
       ELSE /\ pc' = [pc EXCEPT ![r] = "persist"]
            /\ UNCHANGED netCalls
    /\ UNCHANGED <<creds, req, resp, store, docOf, clock, lastList>>

\* requests.post returns or raises, and send_sms_via_twilio returns its result
TwilioReturn(r, outcome) ==
    /\ pc[r] = "await"
    /\ http' = [http EXCEPT ![r] = outcome]
    /\ provider_result' = [provider_result EXCEPT ![r] = send_sms_via_twilio(creds, Chars(req[r].to), Chars(req[r].body), outcome)]
    /\ pc' = [pc EXCEPT ![r] = "persist"]
    /\ UNCHANGED <<creds, req, netCalls, resp, store, docOf, clock, lastList>>

\* the record is built and inserted, and the response returned
CreateMessageFinish(r) ==
    /\ pc[r] = "persist"
    /\ LET message_doc == MessageSchema(Chars(req[r].to), Chars(req[r].body), provider_result[r])
           oid == NewObjectId(Len(store) + 1)
       IN /\ store' = Append(store, StoredDocument(message_doc, oid))
          /\ docOf' = [docOf EXCEPT ![r] = Len(store) + 1]
          /\ resp' = [resp EXCEPT ![r] = create_message_response(message_doc, PyStr(oid), Datetime(clock))]
    /\ clock' = clock + 1
    /\ pc' = [pc EXCEPT ![r] = "done"]
    /\ UNCHANGED <<creds, req, netCalls, http, provider_result, lastList>>

\* create_document raises (the store is unreachable): nothing catches it
CreateMessageStoreFails(r) ==
    /\ pc[r] = "persist"
    /\ resp' = [resp EXCEPT ![r] = [code |-> 500, body |-> [k \in {"detail"} |-> Str("Internal Server Error")]]]
    /\ pc' = [pc EXCEPT ![r] = "done"]
    /\ UNCHANGED <<creds, req, netCalls, http, provider_result, store, docOf, clock, lastList>>

(***************************************************************************)
(* GET /api/messages                                                       *)
(***************************************************************************)
\* list_messages(limit)
ListMessages(limit) ==
    /\ lastList' = [code |-> 200, body |-> list_messages(store, limit)]
    /\ UNCHANGED <<creds, pc, req, netCalls, http, provider_result, resp, store, docOf, clock>>

\* get_documents raises: nothing catches it
ListMessagesStoreFails ==
    /\ lastList' = [code |-> 500, body |-> <<>>]
    /\ UNCHANGED <<creds, pc, req, netCalls, http, provider_result, resp, store, docOf, clock>>

(***************************************************************************)
(* Spec: MaxReqs requests handled concurrently, over a few payloads and    *)
(* provider outcomes.  SpecWide: one request, over every payload and every *)
(* provider outcome of the input sets.                                     *)
(***************************************************************************)
Next ==
    \/ \E r \in Requests, p \in SomePayloads : Receive(r, p)
    \/ \E r \in Requests : CreateMessageStart(r)
    \/ \E r \in Requests, o \in SomeOutcomes : TwilioReturn(r, o)
    \/ \E r \in Requests : CreateMessageFinish(r)
    \/ \E r \in Requests : CreateMessageStoreFails(r)
    \/ \E limit \in Limits : ListMessages(limit)
    \/ ListMessagesStoreFails

Spec == Init /\ [][Next]_vars

NextWide ==
    \/ \E p \in AllPayloads : Receive(1, p)
    \/ CreateMessageStart(1)
    \/ \E o \in AllOutcomes : TwilioReturn(1, o)
    \/ CreateMessageFinish(1)
    \/ CreateMessageStoreFails(1)
    \/ \E limit \in Limits : ListMessages(limit)
    \/ ListMessagesStoreFails

SpecWide == InitWide /\ [][NextWide]_vars

(***************************************************************************)
(* Properties.                                                             *)
(***************************************************************************)
MessageFields == {"to", "body", "status", "provider", "sid", "error"}

\* create_message ran for the request r (the payload was bound)
Entered(r) == pc[r] \notin {"idle", "recv"} /\ MessageCreateValid(req[r])

\* the phone check let the request r through
Accepted(r) == Entered(r) /\ resp[r].code # 400

\* the document of request r, once inserted
DocOf(r) == store[docOf[r]]

\* the documents of the store that carry the id create_message returned to r
DocsWithIdOf(r) == {i \in DOMAIN store : PyStr(store[i]["_id"]) = resp[r].body["id"]}

\* ^\+\d{7,17}$ on a str: "+", then 7 to 17 decimal digits
MatchesE164(to) ==
    /\ Len(to) >= 1 /\ to[1] = "+"
    /\ Len(to) - 1 >= 7 /\ Len(to) - 1 <= 17
    /\ \A i \in 2..Len(to) : to[i] \in DecimalDigits

\* a field of the provider's payload, default when the body is no object or lacks it
PayloadField(outcome, name, default) ==
    IF outcome.body.json /\ outcome.body.value.t = "dict" /\ name \in DOMAIN outcome.body.value.fields
    THEN outcome.body.value.fields[name]
    ELSE default

Answered2xx(r) == http[r].kind = "response" /\ http[r].code >= 200 /\ http[r].code <= 299

SomeCredentialUnset == \E k \in CredentialNames : creds[k] \in {None, Str("")}

\* C1: a request whose `to` does not match ^\+\d{7,17}$ is rejected with 400,
\* with no provider call and no document inserted.
C1_InvalidPhoneRejected ==
    \A r \in Requests :
        (Entered(r) /\ ~MatchesE164(req[r].to)) =>
            /\ pc[r] = "done" /\ resp[r].code = 400
            /\ netCalls[r] = 0 /\ http[r] = NoOutcome
            /\ docOf[r] = 0

\* C2: with a credential unset, a valid request makes no provider call, its
\* record is queued with sid null and an error, and exactly that record is stored.
C2_SimulationQueuedAndPersisted ==
    \A r \in Requests :
        SomeCredentialUnset =>
            /\ netCalls[r] = 0 /\ http[r] = NoOutcome
            /\ (pc[r] = "done" /\ resp[r].code = 200) =>
                  /\ resp[r].body["status"] = Str("queued")
                  /\ resp[r].body["sid"] = None
                  /\ resp[r].body["error"] # None
                  /\ resp[r].body["to"] = Chars(req[r].to)
                  /\ resp[r].body["body"] = Chars(req[r].body)
                  /\ docOf[r] # 0
                  /\ DocsWithIdOf(r) = {docOf[r]}
                  /\ \A k \in MessageFields : DocOf(r)[k] = resp[r].body[k]

C2_Witness ==
    \E r \in Requests : SomeCredentialUnset /\ pc[r] = "done" /\ resp[r].code = 200 /\ docOf[r] # 0

\* C3: once the phone check passes and the store accepts the insert, the
\* request ends with 200 and exactly one record, whatever the provider did;
\* a provider failure is in the record's status and error.
C3_ProviderFailureNeverPropagates ==
    \A r \in Requests :
        (Accepted(r) /\ docOf[r] # 0) =>
            /\ pc[r] = "done" /\ resp[r].code = 200
            /\ DocsWithIdOf(r) = {docOf[r]}
            /\ (http[r].kind = "exception" \/ (http[r].kind = "response" /\ ~Answered2xx(r))) =>
                  /\ DocOf(r)["status"] = Str("failed")
                  /\ DocOf(r)["error"] # None

C3_Witness ==
    \E r \in Requests :
        /\ pc[r] = "done" /\ resp[r].code = 200 /\ docOf[r] # 0
        /\ http[r].kind = "exception"

\* C4 as claimed: a stored record's sid is non-null only when the provider
\* answered with a status code in 200..299.
C4_SidOnlyWhenAccepted ==
    \A r \in Requests :
        (docOf[r] # 0 /\ DocOf(r)["sid"] # None) => Answered2xx(r)

\* C4 as amended: a stored record's sid is non-null only when the provider
\* answered (with any status code) a JSON object carrying that sid.
C4_SidOnlyFromResponsePayload ==
    \A r \in Requests :
        (docOf[r] # 0 /\ DocOf(r)["sid"] # None) =>
            /\ http[r].kind = "response"
            /\ PayloadField(http[r], "sid", None) = DocOf(r)["sid"]

C4_Witness ==
    \E r \in Requests :
        /\ docOf[r] # 0 /\ DocOf(r)["sid"] # None
        /\ http[r].kind = "response" /\ ~Answered2xx(r)

\* C5: for every response with a status code in 200..299, whatever its body,
\* the gateway returns the payload's status ("sent" when absent), the
\* payload's sid, and error null.
C5_SuccessResultFromPayload ==
    \A r \in Requests :
        (Answered2xx(r) /\ pc[r] \in {"persist", "done"}) =>
            /\ provider_result[r]["status"] = PayloadField(http[r], "status", Str("sent"))
            /\ provider_result[r]["sid"] = PayloadField(http[r], "sid", None)
            /\ provider_result[r]["error"] = None

\* C6: every accepted `to` is "+" followed by 8 to 17 digits, 8 to 18
\* characters in all.
C6_AcceptedPhoneFormat ==
    \A r \in Requests :
        Accepted(r) =>
            /\ Len(req[r].to) >= 8 /\ Len(req[r].to) <= 18
            /\ req[r].to[1] = "+"
            /\ Len(req[r].to) - 1 >= 8 /\ Len(req[r].to) - 1 <= 17
            /\ \A i \in 2..Len(req[r].to) : req[r].to[i] \in DecimalDigits

\* C7 as claimed: a record made with a credential missing has no provider;
\* a record names a provider only when a provider call was made.
C7_NoProviderWhenSimulated ==
    \A r \in Requests :
        docOf[r] # 0 =>
            /\ SomeCredentialUnset => DocOf(r)["provider"] = None
            /\ DocOf(r)["provider"] # None => netCalls[r] > 0

\* C7 as amended: every record names the provider "twilio", also when it was
\* made with a credential missing and no provider call.
C7_ProviderAlwaysTwilio ==
    \A r \in Requests :
        docOf[r] # 0 =>
            /\ DocOf(r)["provider"] = Str("twilio")
            /\ resp[r].body["provider"] = Str("twilio")

C7_Witness ==
    \E r \in Requests : docOf[r] # 0 /\ SomeCredentialUnset /\ netCalls[r] = 0

\* C8: a request makes at most one provider call; once the call has returned
\* or raised no further call is made for the request, and a stored record
\* never changes.
C8_SingleAttemptFinal ==
    /\ [](\A r \in Requests : netCalls[r] <= 1)
    /\ [][\A r \in Requests :
            /\ http[r] # NoOutcome => (netCalls'[r] = netCalls[r] /\ http'[r] = http[r])
            /\ \A i \in DOMAIN store : i \in DOMAIN store' /\ store'[i] = store[i]]_vars

C8_Witness ==
    \E r \in Requests :
        /\ pc[r] = "done" /\ docOf[r] # 0 /\ netCalls[r] = 1
        /\ DocOf(r)["status"] = Str("failed")
        /\ \E q \in Requests : q # r /\ pc[q] = "done" /\ docOf[q] > docOf[r]

\* C9: every field create_message returned for a record (to, body, status,
\* provider, sid, error, id) has the same value when list_messages returns
\* the record; the store's _id appears only as the str id.
C9_RoundTrip ==
    lastList.code = 200 =>
        \A i \in DOMAIN lastList.body :
            LET d == lastList.body[i] IN
            /\ "_id" \notin DOMAIN d
            /\ "id" \in DOMAIN d /\ d["id"].t = "str"
            /\ \E r \in Requests : resp[r].code = 200 /\ resp[r].body["id"] = d["id"]
            /\ \A r \in Requests :
                  (resp[r].code = 200 /\ resp[r].body["id"] = d["id"]) =>
                      \A k \in MessageFields \cup {"id"} :
                          k \in DOMAIN d /\ d[k] = resp[r].body[k]

C9_Witness ==
    /\ lastList.code = 200 /\ Len(lastList.body) >= 2
    /\ \E r \in Requests :
          /\ resp[r].code = 200 /\ docOf[r] = 2
          /\ resp[r].body["id"] = lastList.body[2]["id"]
          /\ resp[r].body["sid"] # None

\* C10: a record is stored for a request only after its provider attempt has
\* concluded; the provider call and the insert are not one atomic step.
C10_InsertAfterProviderAttempt ==
    /\ \A r \in Requests :
          /\ pc[r] \in {"idle", "recv", "await"} => docOf[r] = 0
          /\ docOf[r] # 0 =>
                /\ pc[r] = "done"
                /\ netCalls[r] > 0 => http[r] # NoOutcome
    /\ Len(store) = Cardinality({r \in Requests : docOf[r] # 0})

\* the provider accepted the message and no record of it exists
C10_Witness ==
    \E r \in Requests :
        /\ Answered2xx(r) /\ provider_result[r]["sid"] # None
        /\ pc[r] = "done" /\ resp[r].code = 500
        /\ docOf[r] = 0
        /\ \A i \in DOMAIN store : store[i]["to"] # Chars(req[r].to)

====
